---- MODULE Spec2Model ----
(***************************************************************************)
(* Model of gamecode-context: the conversation log (Session), its token    *)
(* accounting, the three compaction policies of Session::compact, the      *)
(* IntelligentCompactor and SessionManager::add_message.                   *)
(*                                                                         *)
(* A Message is a record with the fields the code reads:                   *)
(*   id, role, content_len (content.len(), the byte length of the          *)
(*   content), content_chars (the number of characters of the content),    *)
(*   timestamp and token_count (None or a cached count).                   *)
(* Message::clone copies the record as a whole.                            *)
(***************************************************************************)
EXTENDS Integers, Sequences, FiniteSets, TLC

\* ---------------------------------------------------------------- bounds
\* Appends per behaviour of the state machine (Spec).
MaxMsgs == 3
\* Length of the logs the pure-function specification (SpecCompact) draws.
FnMaxLen == 6
\* Highest value of the clock read by Utc::now().
MaxClock == 1

\* ---------------------------------------------------------------- data
Roles == {"System", "User", "Assistant", "Tool"}

\* Option<usize>::None for Message::token_count.
None == -1

\* Inputs of Message::new / with_token_count: role, content (its length in
\* bytes and in characters) and cached token count.  32 bytes estimate to 8
\* tokens, 40 and 38 bytes to 10 (38 exercises the rounding up), and the Tool
\* turn carries a cached count.  The Assistant content holds two 2-byte
\* characters among its 36, the other contents are ASCII.
MessageKinds ==
  { [role |-> "System",    content_len |-> 32, content_chars |-> 32, token_count |-> None],
    [role |-> "User",      content_len |-> 40, content_chars |-> 40, token_count |-> None],
    [role |-> "Assistant", content_len |-> 38, content_chars |-> 36, token_count |-> None],
    [role |-> "Tool",      content_len |-> 3,  content_chars |-> 3,  token_count |-> 2] }

\* Message::new followed by with_token_count
NewMessage(kind, id, ts) ==
  [id |-> id, role |-> kind.role, content_len |-> kind.content_len,
   content_chars |-> kind.content_chars,
   timestamp |-> ts, token_count |-> kind.token_count]

\* Budgets handed to compact and used as policy parameters.
Budgets == {10, 25, 40}

\* CompactionStrategy values
Strategies ==
  { [kind |-> "Sliding", max_tokens |-> n] : n \in {10, 25} }
  \cup { [kind |-> "SystemAndRecent", system_tokens |-> s, recent_tokens |-> r] :
           s \in {0, 10}, r \in {10, 25} }
  \cup { [kind |-> "Intelligent", target_tokens |-> n] : n \in {25, 40} }

\* IntelligentCompactor values; the weights are in tenths (1.0, 0.5, 0.3).
DefaultCompactor ==
  [kind |-> "Compactor", min_recent_messages |-> 5,
   recency_weight |-> 10, role_weight |-> 5, content_weight |-> 3]

Compactors ==
  { DefaultCompactor, [DefaultCompactor EXCEPT !.min_recent_messages = 2] }

\* ---------------------------------------------------------------- token accounting
\* Message::estimate_tokens
estimate_tokens(m) ==
  IF m.token_count # None THEN m.token_count
  ELSE (m.content_len + 3) \div 4

RECURSIVE total_tokens(_)
\* Session::total_tokens
total_tokens(msgs) ==
  IF msgs = <<>> THEN 0
  ELSE estimate_tokens(Head(msgs)) + total_tokens(Tail(msgs))

\* ---------------------------------------------------------------- Session::compact
RECURSIVE DropWhileOver(_, _)
DropWhileOver(msgs, max_tokens) ==
  IF total_tokens(msgs) > max_tokens /\ msgs # <<>>
  THEN DropWhileOver(Tail(msgs), max_tokens)
  ELSE msgs

compact_sliding_dowhile(msgs, max_tokens) ==
  IF msgs = <<>> THEN msgs ELSE DropWhileOver(Tail(msgs), max_tokens)

RECURSIVE compact_sliding_atleast(_, _)
compact_sliding_atleast(msgs, max_tokens) ==
  IF total_tokens(msgs) >= max_tokens /\ msgs # <<>>
  THEN compact_sliding_atleast(Tail(msgs), max_tokens)
  ELSE msgs

RECURSIVE compact_sliding(_, _)
\* Session::compact_sliding: remove(0) while over max_tokens and non-empty
compact_sliding(msgs, max_tokens) ==
  IF total_tokens(msgs) > max_tokens /\ msgs # <<>>
  THEN compact_sliding(Tail(msgs), max_tokens)
  ELSE msgs

RECURSIVE SystemScanBreak(_, _, _, _, _)
SystemScanBreak(msgs, i, kept, count, system_tokens) ==
  IF i > Len(msgs) THEN kept
  ELSE IF msgs[i].role = "System"
       THEN LET tokens == estimate_tokens(msgs[i]) IN
            IF count + tokens <= system_tokens
            THEN SystemScanBreak(msgs, i + 1, Append(kept, msgs[i]), count + tokens, system_tokens)
            ELSE kept
       ELSE SystemScanBreak(msgs, i + 1, kept, count, system_tokens)

RECURSIVE SystemScanAnyRole(_, _, _, _, _)
SystemScanAnyRole(msgs, i, kept, count, system_tokens) ==
  IF i > Len(msgs) THEN kept
  ELSE LET tokens == estimate_tokens(msgs[i]) IN
       IF count + tokens <= system_tokens
       THEN SystemScanAnyRole(msgs, i + 1, Append(kept, msgs[i]), count + tokens, system_tokens)
       ELSE SystemScanAnyRole(msgs, i + 1, kept, count, system_tokens)

RECURSIVE SystemScan(_, _, _, _, _)
\* first loop of compact_system_and_recent: oldest to newest, keep the System
\* turns that fit, skip (and go on past) those that do not
SystemScan(msgs, i, kept, count, system_tokens) ==
  IF i > Len(msgs) THEN kept
  ELSE IF msgs[i].role = "System"
       THEN LET tokens == estimate_tokens(msgs[i]) IN
            IF count + tokens <= system_tokens
            THEN SystemScan(msgs, i + 1, Append(kept, msgs[i]), count + tokens, system_tokens)
            ELSE SystemScan(msgs, i + 1, kept, count, system_tokens)
       ELSE SystemScan(msgs, i + 1, kept, count, system_tokens)

RECURSIVE RecentScanSkip(_, _, _, _, _)
RecentScanSkip(msgs, i, kept, count, recent_tokens) ==
  IF i < 1 THEN kept
  ELSE IF msgs[i].role # "System"
       THEN LET tokens == estimate_tokens(msgs[i]) IN
            IF count + tokens <= recent_tokens
            THEN RecentScanSkip(msgs, i - 1, <<msgs[i]>> \o kept, count + tokens, recent_tokens)
            ELSE RecentScanSkip(msgs, i - 1, kept, count, recent_tokens)
       ELSE RecentScanSkip(msgs, i - 1, kept, count, recent_tokens)

RECURSIVE RecentScanPush(_, _, _, _, _)
RecentScanPush(msgs, i, kept, count, recent_tokens) ==
  IF i < 1 THEN kept
  ELSE IF msgs[i].role # "System"
       THEN LET tokens == estimate_tokens(msgs[i]) IN
            IF count + tokens <= recent_tokens
            THEN RecentScanPush(msgs, i - 1, Append(kept, msgs[i]), count + tokens, recent_tokens)
            ELSE kept
       ELSE RecentScanPush(msgs, i - 1, kept, count, recent_tokens)

RECURSIVE RecentScan(_, _, _, _, _)
\* second loop of compact_system_and_recent: newest to oldest over the
\* non-System turns, insert(0, ..) while they fit, break at the first overflow
RecentScan(msgs, i, kept, count, recent_tokens) ==
  IF i < 1 THEN kept
  ELSE IF msgs[i].role # "System"
       THEN LET tokens == estimate_tokens(msgs[i]) IN
            IF count + tokens <= recent_tokens
            THEN RecentScan(msgs, i - 1, <<msgs[i]>> \o kept, count + tokens, recent_tokens)
            ELSE kept
       ELSE RecentScan(msgs, i - 1, kept, count, recent_tokens)

\* Session::compact_system_and_recent
compact_system_and_recent(msgs, system_tokens, recent_tokens) ==
  SystemScan(msgs, 1, <<>>, 0, system_tokens)
    \o RecentScan(msgs, Len(msgs), <<>>, 0, recent_tokens)

\* Session::compact_intelligent
compact_intelligent(msgs, target_tokens) ==
  compact_system_and_recent(msgs, target_tokens \div 4, (target_tokens * 3) \div 4)

\* the match of Session::compact
ApplyStrategy(msgs, strategy) ==
  CASE strategy.kind = "Sliding" ->
         compact_sliding(msgs, strategy.max_tokens)
    [] strategy.kind = "SystemAndRecent" ->
         compact_system_and_recent(msgs, strategy.system_tokens, strategy.recent_tokens)
    [] strategy.kind = "Intelligent" ->
         compact_intelligent(msgs, strategy.target_tokens)

SessionCompactNoGuard(msgs, strategy, target_tokens) ==
  ApplyStrategy(msgs, strategy)

\* Session::compact, the resulting messages
SessionCompact(msgs, strategy, target_tokens) ==
  IF total_tokens(msgs) <= target_tokens THEN msgs
  ELSE ApplyStrategy(msgs, strategy)

recent_messages_skip_count(msgs, count) ==
  IF count >= Len(msgs) THEN msgs
  ELSE SubSeq(msgs, count + 1, Len(msgs))

\* Session::recent_messages(count): all of the log, or the log after
\* skip(len - count)
recent_messages(msgs, count) ==
  IF count >= Len(msgs) THEN msgs
  ELSE SubSeq(msgs, (Len(msgs) - count) + 1, Len(msgs))

RECURSIVE sliding_removals(_, _)
\* the number of remove(0) calls of the loop of Session::compact_sliding
sliding_removals(msgs, max_tokens) ==
  IF total_tokens(msgs) > max_tokens /\ msgs # <<>>
  THEN 1 + sliding_removals(Tail(msgs), max_tokens)
  ELSE 0

PolicyResultFailsWhenEmptied(msgs, strategy) ==
  IF ApplyStrategy(msgs, strategy) = <<>> THEN "CompactionFailed" ELSE "Ok"

\* the Result of compact_sliding, compact_system_and_recent and
\* compact_intelligent: each ends in Ok(()) and has no other return
PolicyResult(msgs, strategy) == "Ok"

\* Session::compact, its Result: Ok(()) from the early return, else the
\* policy's Result handed on by `?`
SessionCompactResult(msgs, strategy, target_tokens) ==
  IF total_tokens(msgs) <= target_tokens THEN "Ok"
  ELSE PolicyResult(msgs, strategy)

\* ---------------------------------------------------------------- IntelligentCompactor
role_score_tool_below_assistant(role) ==
  CASE role = "System" -> 10
    [] role = "Tool" -> 6
    [] role = "Assistant" -> 8
    [] role = "User" -> 4

\* role_score of message_priority, in tenths
role_score(role) ==
  CASE role = "System" -> 10
    [] role = "Tool" -> 8
    [] role = "Assistant" -> 6
    [] role = "User" -> 4

\* session.messages.iter().position(|m| m.id == message.id).unwrap_or(0)
message_position(message, msgs) ==
  IF \E i \in 1..Len(msgs) : msgs[i].id = message.id
  THEN (CHOOSE i \in 1..Len(msgs) :
          /\ msgs[i].id = message.id
          /\ \A j \in 1..(i - 1) : msgs[j].id # message.id) - 1
  ELSE 0

\* content_length capped where content_score reaches 1.0
ContentCap == 1000

\* IntelligentCompactor::message_priority.  The f64 value
\*   position / len * recency_weight + role_score * role_weight
\*     + min(content_len / 1000, 1) * content_weight
\* is kept exact as an integer: it is multiplied by 100000 * Len(msgs)
\* (weights and role scores are in tenths), the same factor for every turn
\* of one log, so comparisons within a log are those of the exact values.
message_priority(c, message, msgs) ==
  LET n == Len(msgs)
      len == IF message.content_len < ContentCap THEN message.content_len ELSE ContentCap
  IN message_position(message, msgs) * c.recency_weight * 10000
       + role_score(message.role) * c.role_weight * 1000 * n
       + len * c.content_weight * 10 * n

RECURSIVE InsertByPriority(_, _)
\* place entry x behind every entry whose priority is >= its own
InsertByPriority(x, sorted) ==
  IF sorted = <<>> THEN <<x>>
  ELSE IF Head(sorted)[2] >= x[2]
       THEN <<Head(sorted)>> \o InsertByPriority(x, Tail(sorted))
       ELSE <<x>> \o sorted

RECURSIVE SortByPriority(_, _, _)
\* message_priorities.sort_by(|a, b| b.1.partial_cmp(&a.1)): a stable sort,
\* highest priority first, equal priorities stay in index order
SortByPriority(entries, i, sorted) ==
  IF i > Len(entries) THEN sorted
  ELSE SortByPriority(entries, i + 1, InsertByPriority(entries[i], sorted))

RECURSIVE GreedyKeepUntilFull(_, _, _, _, _, _)
GreedyKeepUntilFull(msgs, order, k, token_count, keep, target_tokens) ==
  IF k > Len(order) THEN keep
  ELSE LET message_tokens == estimate_tokens(msgs[order[k][1]]) IN
       IF token_count + message_tokens <= target_tokens
       THEN GreedyKeepUntilFull(msgs, order, k + 1, token_count + message_tokens,
                       keep \cup {order[k][1]}, target_tokens)
       ELSE keep

RECURSIVE GreedyKeepEachFits(_, _, _, _, _, _)
GreedyKeepEachFits(msgs, order, k, token_count, keep, target_tokens) ==
  IF k > Len(order) THEN keep
  ELSE LET message_tokens == estimate_tokens(msgs[order[k][1]]) IN
       IF message_tokens <= target_tokens
       THEN GreedyKeepEachFits(msgs, order, k + 1, token_count + message_tokens,
                       keep \cup {order[k][1]}, target_tokens)
       ELSE GreedyKeepEachFits(msgs, order, k + 1, token_count, keep, target_tokens)

RECURSIVE GreedyKeep(_, _, _, _, _, _)
\* the loop over message_priorities: accept a candidate when it still fits,
\* go on to the next one when it does not
GreedyKeep(msgs, order, k, token_count, keep, target_tokens) ==
  IF k > Len(order) THEN keep
  ELSE LET message_tokens == estimate_tokens(msgs[order[k][1]]) IN
       IF token_count + message_tokens <= target_tokens
       THEN GreedyKeep(msgs, order, k + 1, token_count + message_tokens,
                       keep \cup {order[k][1]}, target_tokens)
       ELSE GreedyKeep(msgs, order, k + 1, token_count, keep, target_tokens)

RECURSIVE SelectIndices(_, _, _)
\* indices_to_keep.sort() and the loop cloning the messages at those indices
SelectIndices(msgs, i, keep) ==
  IF i > Len(msgs) THEN <<>>
  ELSE IF i \in keep
       THEN <<msgs[i]>> \o SelectIndices(msgs, i + 1, keep)
       ELSE SelectIndices(msgs, i + 1, keep)

CompactorCompactNoGuard(c, msgs, target_tokens) ==
  LET keep_recent == IF c.min_recent_messages < Len(msgs)
                     THEN c.min_recent_messages ELSE Len(msgs)
      messages_to_consider == Len(msgs) - keep_recent
      older == SubSeq(msgs, 1, messages_to_consider)
      recent == SubSeq(msgs, messages_to_consider + 1, Len(msgs))
      message_priorities ==
        [i \in 1..messages_to_consider |-> <<i, message_priority(c, msgs[i], msgs)>>]
      order == SortByPriority(message_priorities, 1, <<>>)
      indices_to_keep == GreedyKeep(msgs, order, 1, total_tokens(recent), {}, target_tokens)
  IN SelectIndices(older, 1, indices_to_keep) \o recent

\* IntelligentCompactor::compact, the resulting messages
CompactorCompact(c, msgs, target_tokens) ==
  IF total_tokens(msgs) <= target_tokens THEN msgs
  ELSE CompactorCompactNoGuard(c, msgs, target_tokens)

\* IntelligentCompactor::compact, its Result: Ok(()) on both returns
CompactorCompactResult(c, msgs, target_tokens) == "Ok"

\* ---------------------------------------------------------------- MessageFormat
\* A wire message (BedrockMessage, OpenAIMessage) is a role string and the
\* content, which the model carries as its lengths in bytes and characters.

\* BedrockFormat::from_session, the match on message.role
BedrockRole(role) ==
  CASE role = "System"    -> "system"
    [] role = "User"      -> "user"
    [] role = "Assistant" -> "assistant"
    [] role = "Tool"      -> "user"

\* BedrockFormat::to_session, the match on bedrock_msg.role
BedrockRoleBack(text) ==
  CASE text = "system"    -> "System"
    [] text = "user"      -> "User"
    [] text = "assistant" -> "Assistant"
    [] OTHER              -> "User"

\* OpenAIFormat::from_session, the match on message.role
OpenAIRole(role) ==
  CASE role = "System"    -> "system"
    [] role = "User"      -> "user"
    [] role = "Assistant" -> "assistant"
    [] role = "Tool"      -> "function"

OpenAIRoleBackNoFunction(text) ==
  CASE text = "system"    -> "System"
    [] text = "user"      -> "User"
    [] text = "assistant" -> "Assistant"
    [] OTHER              -> "User"

\* OpenAIFormat::to_session, the match on openai_msg.role
OpenAIRoleBack(text) ==
  CASE text = "system"    -> "System"
    [] text = "user"      -> "User"
    [] text = "assistant" -> "Assistant"
    [] text = "function"  -> "Tool"
    [] OTHER              -> "User"

Formats == {"Bedrock", "OpenAI"}

\* BedrockFormat::from_session / OpenAIFormat::from_session
from_session(format, msgs) ==
  [i \in 1..Len(msgs) |->
     [role |-> IF format = "Bedrock" THEN BedrockRole(msgs[i].role)
               ELSE OpenAIRole(msgs[i].role),
      content_len |-> msgs[i].content_len,
      content_chars |-> msgs[i].content_chars]]

\* BedrockFormat::to_session / OpenAIFormat::to_session, the messages of the
\* session built: one Message::new per wire message, with a fresh id, the
\* time of the call and no cached token count
to_session(format, wire, first_id, time) ==
  [i \in 1..Len(wire) |->
     NewMessage([role |-> IF format = "Bedrock" THEN BedrockRoleBack(wire[i].role)
                          ELSE OpenAIRoleBack(wire[i].role),
                 content_len |-> wire[i].content_len,
                 content_chars |-> wire[i].content_chars,
                 token_count |-> None],
                first_id + i - 1, time)]

\* ---------------------------------------------------------------- FileStorage
\* FileStorage on a unix build.  The sessions directory holds one file
\* "<id>.json" per stored session and the symbolic link "latest.json".  The
\* file system performs every call it is asked for: failures of the medium
\* (permissions, full disk, files edited from outside) are left out.

\* the number of session ids in use; raised, more sessions share the store
MaxSessions == 2

\* the last value of the file system clock that stamps modification times
MaxFsTime == 2

SessionIds == 1..MaxSessions

\* how many sessions SessionManager::load_latest creates with Session::new
MaxNewSessions == 2

\* the ids Uuid::new_v4 gives to the sessions made by Session::new
NewSessionIds == (MaxSessions + 1)..(MaxSessions + MaxNewSessions)

\* the ids a session file can bear
FileIds == SessionIds \cup NewSessionIds

NoSession ==
  [id |-> 0, name |-> "", created_at |-> 0, updated_at |-> 0,
   messages |-> <<>>, metadata |-> {}]

\* The sessions handed to save_session: under each id an early state of the
\* session and a later one with a further turn (cached token count, 2-byte
\* characters in the content of the first) and an entry in its metadata.
SessionVersions(id) ==
  { [id |-> id, name |-> "session-19700101-000000", created_at |-> 0, updated_at |-> 0,
     messages |-> << NewMessage([role |-> "Assistant", content_len |-> 38,
                                 content_chars |-> 36, token_count |-> None], 1, 0) >>,
     metadata |-> {}],
    [id |-> id, name |-> "session-19700101-000000", created_at |-> 0, updated_at |-> 1,
     messages |-> << NewMessage([role |-> "Assistant", content_len |-> 38,
                                 content_chars |-> 36, token_count |-> None], 1, 0),
                     NewMessage([role |-> "Tool", content_len |-> 3,
                                 content_chars |-> 3, token_count |-> 2], 2, 1) >>,
     metadata |-> {<<"topic", "chat">>}] }

\* serde: MessageRole is written as its lowercase name
SerializeRole(role) ==
  CASE role = "System"    -> "system"
    [] role = "User"      -> "user"
    [] role = "Assistant" -> "assistant"
    [] role = "Tool"      -> "tool"

DeserializeRole(text) ==
  CASE text = "system"    -> "System"
    [] text = "user"      -> "User"
    [] text = "assistant" -> "Assistant"
    [] text = "tool"      -> "Tool"

\* serde: Option<usize> is written as null or as a number
SerializeOption(token_count) ==
  IF token_count = None THEN <<"null">> ELSE <<"number", token_count>>

DeserializeOption(json) ==
  IF json[1] = "null" THEN None ELSE json[2]

\* serde: a Message as a JSON object; the content is a JSON string of the
\* same bytes and characters, the timestamp an RFC 3339 string
SerializeMessage(m) ==
  [id |-> <<"string", m.id>>, role |-> <<"string", SerializeRole(m.role)>>,
   content |-> <<"string", m.content_len, m.content_chars>>,
   timestamp |-> <<"rfc3339", m.timestamp>>,
   token_count |-> SerializeOption(m.token_count)]

DeserializeMessageNoCount(json) ==
  [id |-> json.id[2], role |-> DeserializeRole(json.role[2]),
   content_len |-> json.content[2], content_chars |-> json.content[3],
   timestamp |-> json.timestamp[2], token_count |-> None]

DeserializeMessage(json) ==
  [id |-> json.id[2], role |-> DeserializeRole(json.role[2]),
   content_len |-> json.content[2], content_chars |-> json.content[3],
   timestamp |-> json.timestamp[2],
   token_count |-> DeserializeOption(json.token_count)]

\* serde_json::to_string_pretty(session)
Serialize(session) ==
  [id |-> <<"string", session.id>>, name |-> <<"string", session.name>>,
   created_at |-> <<"rfc3339", session.created_at>>,
   updated_at |-> <<"rfc3339", session.updated_at>>,
   messages |-> [i \in 1..Len(session.messages) |-> SerializeMessage(session.messages[i])],
   metadata |-> <<"object", session.metadata>>]

\* serde_json::from_str::<Session>(data)
Deserialize(json) ==
  [id |-> json.id[2], name |-> json.name[2],
   created_at |-> json.created_at[2], updated_at |-> json.updated_at[2],
   messages |-> [i \in 1..Len(json.messages) |-> DeserializeMessage(json.messages[i])],
   metadata |-> json.metadata[2]]

NoFile == [present |-> FALSE, data |-> Serialize(NoSession), mtime |-> 0]

NoLink == 0

\* Path::exists on session_file_path(id)
file_exists(fs, id) == fs[id].present

\* Path::exists on latest_symlink: it follows the link, so a link whose
\* target is gone does not exist
latest_symlink_exists(fs, link) == link # NoLink /\ fs[link].present

\* FileStorage::update_latest_symlink: the link after the call and the
\* Result; symlink(2) fails with EEXIST when the name is still taken
update_latest_symlink(fs, link, session_id) ==
  IF latest_symlink_exists(fs, link) \/ link = NoLink
  THEN [link |-> session_id, result |-> "Ok"]
  ELSE [link |-> link, result |-> "Storage"]

save_session_keep_existing(fs, link, time, session) ==
  LET written == IF fs[session.id].present THEN fs
                 ELSE [fs EXCEPT ![session.id] =
                         [present |-> TRUE, data |-> Serialize(session), mtime |-> time]]
      updated == update_latest_symlink(written, link, session.id)
  IN  [files |-> written, link |-> updated.link, result |-> updated.result]

\* FileStorage::save_session: fs::write, then update_latest_symlink
save_session(fs, link, time, session) ==
  LET written == [fs EXCEPT ![session.id] =
                    [present |-> TRUE, data |-> Serialize(session), mtime |-> time]]
      updated == update_latest_symlink(written, link, session.id)
  IN  [files |-> written, link |-> updated.link, result |-> updated.result]

\* FileStorage::load_session
load_session(fs, session_id) ==
  IF ~file_exists(fs, session_id)
  THEN [result |-> "SessionNotFound", session |-> NoSession]
  ELSE [result |-> "Ok", session |-> Deserialize(fs[session_id].data)]

\* FileStorage::load_latest_session; Ok with NoSession stands for Ok(None)
load_latest_session(fs, link) ==
  IF ~latest_symlink_exists(fs, link)
  THEN [result |-> "Ok", session |-> NoSession]
  ELSE [result |-> "Ok", session |-> Deserialize(fs[link].data)]

\* FileStorage::get_session_info
get_session_info(fs, id) ==
  [id |-> id, modified_at |-> fs[id].mtime,
   message_count |-> Len(Deserialize(fs[id].data).messages)]

\* FileStorage::list_sessions: the listings it can return.  read_dir yields
\* the files in any order and the sort is stable, so sessions with equal
\* modification times come in any order.
list_sessions(fs) ==
  LET present == {id \in DOMAIN fs : fs[id].present}
      n == Cardinality(present)
  IN  { [i \in 1..n |-> get_session_info(fs, order[i])] :
          order \in { o \in [1..n -> present] :
                        /\ \A i, j \in 1..n : i # j => o[i] # o[j]
                        /\ \A i \in 1..n, j \in 1..n :
                             i < j => fs[o[i]].mtime >= fs[o[j]].mtime } }

delete_session_missing_ok(fs, link, session_id) ==
  IF ~file_exists(fs, session_id)
  THEN [files |-> fs, link |-> IF link = session_id THEN NoLink ELSE link,
        result |-> "Ok"]
  ELSE LET removed == [fs EXCEPT ![session_id] = NoFile]
       IN  [files |-> removed, link |-> link, result |-> "Ok"]

\* FileStorage::delete_session
delete_session(fs, link, session_id) ==
  IF ~file_exists(fs, session_id)
  THEN [files |-> fs, link |-> link, result |-> "SessionNotFound"]
  ELSE LET removed == [fs EXCEPT ![session_id] = NoFile]
           latest == load_latest_session(removed, link)
       IN  [files |-> removed,
            link |-> IF /\ latest.result = "Ok"
                        /\ latest.session # NoSession
                        /\ latest.session.id = session_id
                        /\ latest_symlink_exists(removed, link)
                     THEN NoLink ELSE link,
            result |-> "Ok"]

\* Session::new() at time `time`, with the id Uuid::new_v4 returned
NewSession(id, time) ==
  [id |-> id, name |-> "session-19700101-000000", created_at |-> time,
   updated_at |-> time, messages |-> <<>>, metadata |-> {}]

manager_load_latest_always_saves(fs, link, fs_now, auto_save, new_id, time) ==
  LET latest == load_latest_session(fs, link) IN
    IF latest.session # NoSession
    THEN [files |-> fs, link |-> link, result |-> "Ok", session |-> latest.session,
          created |-> FALSE, saving |-> FALSE]
    ELSE LET session == NewSession(new_id, time)
             s == save_session(fs, link, fs_now, session)
         IN  [files |-> s.files, link |-> s.link, result |-> s.result,
              session |-> IF s.result = "Ok" THEN session ELSE NoSession,
              created |-> TRUE, saving |-> TRUE]

\* SessionManager::load_latest: the latest session, or a new one, saved
\* when auto_save is set; `created` tells whether Session::new was called
manager_load_latest(fs, link, fs_now, auto_save, new_id, time) ==
  LET latest == load_latest_session(fs, link) IN
    IF latest.session # NoSession
    THEN [files |-> fs, link |-> link, result |-> "Ok", session |-> latest.session,
          created |-> FALSE, saving |-> FALSE]
    ELSE LET session == NewSession(new_id, time)
             s == save_session(fs, link, fs_now, session)
         IN  IF auto_save
             THEN [files |-> s.files, link |-> s.link, result |-> s.result,
                   session |-> IF s.result = "Ok" THEN session ELSE NoSession,
                   created |-> TRUE, saving |-> TRUE]
             ELSE [files |-> fs, link |-> link, result |-> "Ok", session |-> session,
                   created |-> TRUE, saving |-> FALSE]

\* SessionManager::new_session: Session::new, saved when auto_save is set
manager_new_session(fs, link, fs_now, auto_save, new_id, time) ==
  LET session == NewSession(new_id, time)
      s == save_session(fs, link, fs_now, session)
  IN  IF auto_save
      THEN [files |-> s.files, link |-> s.link, result |-> s.result,
            session |-> IF s.result = "Ok" THEN session ELSE NoSession,
            saving |-> TRUE]
      ELSE [files |-> fs, link |-> link, result |-> "Ok", session |-> session,
            saving |-> FALSE]

\* SessionManager::add_message(session, message) at time `time`, with a
\* FileStorage behind it: append, compact when over max_tokens, save when
\* auto_save is set; `session` in the result is the caller's session after
\* the call, whatever the Result
manager_add_message(fs, link, fs_now, mgr, session, message, time) ==
  LET appended == Append(session.messages, message)
      over == total_tokens(appended) > mgr.max_tokens
      compacted == IF over
                   THEN SessionCompact(appended, mgr.compaction_strategy, mgr.max_tokens)
                   ELSE appended
      compact_result == IF over
                        THEN SessionCompactResult(appended, mgr.compaction_strategy,
                                                  mgr.max_tokens)
                        ELSE "Ok"
      after == [session EXCEPT !.messages = compacted, !.updated_at = time]
      s == save_session(fs, link, fs_now, after)
  IN  IF compact_result # "Ok"
      THEN [files |-> fs, link |-> link, result |-> compact_result, session |-> after,
            saving |-> FALSE]
      ELSE IF mgr.auto_save
      THEN [files |-> s.files, link |-> s.link, result |-> s.result, session |-> after,
            saving |-> TRUE]
      ELSE [files |-> fs, link |-> link, result |-> "Ok", session |-> after,
            saving |-> FALSE]

to_delete_newest(sessions, keep_count) ==
  SubSeq(sessions, 1, Len(sessions) - keep_count)

\* cleanup_old_sessions: &sessions[keep_count..]
to_delete(sessions, keep_count) ==
  SubSeq(sessions, keep_count + 1, Len(sessions))

RECURSIVE delete_each(_, _, _, _)
\* cleanup_old_sessions: the loop over to_delete, counting the Ok results
delete_each(fs, link, infos, deleted_count) ==
  IF infos = <<>> THEN [files |-> fs, link |-> link, count |-> deleted_count]
  ELSE LET d == delete_session(fs, link, Head(infos).id)
       IN  delete_each(d.files, d.link, Tail(infos),
                       IF d.result = "Ok" THEN deleted_count + 1 ELSE deleted_count)

\* FileStorage::cleanup_old_sessions on the listing `sessions`
cleanup_old_sessions(fs, link, sessions, keep_count) ==
  IF Len(sessions) <= keep_count
  THEN [files |-> fs, link |-> link, count |-> 0]
  ELSE delete_each(fs, link, to_delete(sessions, keep_count), 0)

\* ---------------------------------------------------------------- state
VARIABLES
  messages,     \* Session::messages
  created_at,   \* Session::created_at
  updated_at,   \* Session::updated_at
  now,          \* the clock read by Utc::now()
  nextId,       \* number of messages created so far; stands for Uuid::new_v4()
  manager,      \* SessionManager: compaction_strategy, max_tokens, auto_save
  stored,       \* the messages of the session file written by save_session, or NotStored
  last,         \* the last operation: its name, arguments, the log before it, its result
  files,        \* the sessions directory: per id the file "<id>.json" or NoFile
  latest_symlink, \* the id "latest.json" links to, or NoLink
  fs_time,      \* the file system clock that stamps modification times
  io,           \* the last FileStorage call: its name, arguments and result
  saved         \* per id the session of the last save_session call not deleted since,
                \* the id of the last save_session call, whether it replaced other data

sessionVars == <<messages, created_at, updated_at, now, nextId, manager, stored, last>>

storageVars == <<files, latest_symlink, fs_time, io, saved>>

vars == <<messages, created_at, updated_at, now, nextId, manager, stored, last,
          files, latest_symlink, fs_time, io, saved>>

NotStored == <<"not stored">>

NoStrategy == [kind |-> "none"]

NoMessage == [id |-> 0]

LastInit ==
  [op |-> "new", strategy |-> NoStrategy, target |-> 0, before |-> <<>>,
   message |-> NoMessage, saved |-> FALSE, result |-> "Ok", returned |-> <<>>]

\* A policy with the budget it is used with: parameters within the budget
\* (as those of Config::default are) and parameters above it.
Policies ==
  { [strategy |-> [kind |-> "SystemAndRecent", system_tokens |-> 10, recent_tokens |-> 10],
     budget |-> 25],
    [strategy |-> [kind |-> "SystemAndRecent", system_tokens |-> 10, recent_tokens |-> 25],
     budget |-> 10],
    [strategy |-> [kind |-> "Sliding", max_tokens |-> 10], budget |-> 10],
    [strategy |-> [kind |-> "Sliding", max_tokens |-> 25], budget |-> 10],
    [strategy |-> [kind |-> "Intelligent", target_tokens |-> 25], budget |-> 25] }

\* SessionManager::with_config
Managers ==
  { [compaction_strategy |-> p.strategy, max_tokens |-> p.budget, auto_save |-> a] :
      p \in Policies, a \in BOOLEAN }

IoInit ==
  [op |-> "with_directory", id |-> 0, keep_count |-> 0, result |-> "Ok",
   session |-> NoSession, count |-> 0, before |-> [id \in FileIds |-> NoFile],
   latest_before |-> NoLink, save_called |-> FALSE]

\* FileStorage::with_directory on a new directory
StorageInit ==
  /\ files = [id \in FileIds |-> NoFile]
  /\ latest_symlink = NoLink
  /\ fs_time = 0
  /\ io = IoInit
  /\ saved = [written |-> [id \in FileIds |-> NoSession], last |-> 0,
              replaced |-> FALSE]

\* Session::new and SessionManager::with_config
Init ==
  /\ messages = <<>>
  /\ created_at = 0
  /\ updated_at = 0
  /\ now = 0
  /\ nextId = 1
  /\ manager \in Managers
  /\ stored = NotStored
  /\ last = LastInit
  /\ StorageInit

\* time passes
Tick ==
  /\ now < MaxClock
  /\ now' = now + 1
  /\ UNCHANGED <<messages, created_at, updated_at, nextId, manager, stored, last, storageVars>>

\* Session::add_message(Message::new(..)): the turn is stamped and appended
AddMessage(kind) ==
  /\ nextId <= MaxMsgs
  /\ LET message == NewMessage(kind, nextId, now) IN
       /\ messages' = Append(messages, message)
       /\ last' = [LastInit EXCEPT !.op = "add_message", !.before = messages,
                                   !.message = message]
  /\ updated_at' = now
  /\ nextId' = nextId + 1
  /\ UNCHANGED <<created_at, now, manager, stored, storageVars>>

\* Session::compact(strategy, target_tokens)
Compact(strategy, target_tokens) ==
  /\ messages' = SessionCompact(messages, strategy, target_tokens)
  /\ updated_at' = IF total_tokens(messages) <= target_tokens THEN updated_at ELSE now
  /\ last' = [LastInit EXCEPT !.op = "compact", !.strategy = strategy,
                              !.target = target_tokens, !.before = messages,
                              !.result = SessionCompactResult(messages, strategy,
                                                              target_tokens)]
  /\ UNCHANGED <<created_at, now, nextId, manager, stored, storageVars>>

\* Session::compact called once more with the arguments of the call before
CompactAgain ==
  /\ last.op = "compact"
  /\ messages' = SessionCompact(messages, last.strategy, last.target)
  /\ updated_at' = IF total_tokens(messages) <= last.target THEN updated_at ELSE now
  /\ last' = [last EXCEPT !.op = "compact_again", !.before = messages,
                          !.result = SessionCompactResult(messages, last.strategy,
                                                          last.target)]
  /\ UNCHANGED <<created_at, now, nextId, manager, stored, storageVars>>

\* IntelligentCompactor::compact(session, target_tokens)
CompactorRun(c, target_tokens) ==
  /\ messages' = CompactorCompact(c, messages, target_tokens)
  /\ last' = [LastInit EXCEPT !.op = "compactor", !.strategy = c,
                              !.target = target_tokens, !.before = messages,
                              !.result = CompactorCompactResult(c, messages,
                                                                target_tokens)]
  /\ UNCHANGED <<created_at, updated_at, now, nextId, manager, stored, storageVars>>

\* IntelligentCompactor::compact called once more with the same arguments
CompactorAgain ==
  /\ last.op = "compactor"
  /\ messages' = CompactorCompact(last.strategy, messages, last.target)
  /\ last' = [last EXCEPT !.op = "compactor_again", !.before = messages,
                          !.result = CompactorCompactResult(last.strategy, messages,
                                                            last.target)]
  /\ UNCHANGED <<created_at, updated_at, now, nextId, manager, stored, storageVars>>

\* Session::recent_messages(count)
RecentMessages(count) ==
  /\ last' = [LastInit EXCEPT !.op = "recent_messages", !.target = count,
                              !.before = messages,
                              !.returned = recent_messages(messages, count)]
  /\ UNCHANGED <<messages, created_at, updated_at, now, nextId, manager, stored,
                 storageVars>>

\* session = format.to_session(&format.from_session(&session)?, name)?
FormatRoundTrip(format) ==
  /\ LET wire == from_session(format, messages) IN
       /\ messages' = to_session(format, wire, nextId, now)
       /\ last' = [LastInit EXCEPT !.op = "format_round_trip",
                                   !.strategy = [kind |-> format],
                                   !.before = messages, !.returned = wire]
  /\ created_at' = now
  /\ updated_at' = now
  /\ nextId' = nextId + Len(messages)
  /\ UNCHANGED <<now, manager, stored, storageVars>>

\* SessionManager::add_message: append, compact when over max_tokens (an
\* error of the compaction is returned at once), then save when auto_save is
\* set; save_ok is whether storage.save_session succeeds
ManagerAddMessage(kind, save_ok) ==
  /\ nextId <= MaxMsgs
  /\ LET message == NewMessage(kind, nextId, now)
         appended == Append(messages, message)
         over == total_tokens(appended) > manager.max_tokens
         compacted == IF over
                      THEN SessionCompact(appended, manager.compaction_strategy,
                                          manager.max_tokens)
                      ELSE appended
         compact_result == IF over
                           THEN SessionCompactResult(appended, manager.compaction_strategy,
                                                     manager.max_tokens)
                           ELSE "Ok"
         saving == compact_result = "Ok" /\ manager.auto_save
     IN /\ messages' = compacted
        /\ stored' = IF saving /\ save_ok THEN compacted ELSE stored
        /\ last' = [op |-> "manager_add_message", strategy |-> manager.compaction_strategy,
                    target |-> manager.max_tokens, before |-> messages,
                    message |-> message, saved |-> saving, returned |-> <<>>,
                    result |-> IF compact_result # "Ok" THEN compact_result
                               ELSE IF saving /\ ~save_ok THEN "Err" ELSE "Ok"]
  /\ updated_at' = now
  /\ nextId' = nextId + 1
  /\ UNCHANGED <<created_at, now, manager, storageVars>>

Next ==
  \/ Tick
  \/ \E kind \in MessageKinds : AddMessage(kind)
  \/ \E p \in Policies : Compact(p.strategy, p.budget)
  \/ \E c \in Compactors, target_tokens \in {10, 25} : CompactorRun(c, target_tokens)
  \/ \E kind \in MessageKinds, save_ok \in BOOLEAN : ManagerAddMessage(kind, save_ok)

Spec == Init /\ [][Next]_vars

\* ---------------------------------------------------------------- compact as a function
\* every log of at most FnMaxLen turns, stamped in creation order
FnLogs ==
  UNION { { [i \in 1..n |-> NewMessage(f[i], i, i)] : f \in [1..n -> MessageKinds] } :
          n \in 0..FnMaxLen }

InitCompact ==
  /\ messages \in FnLogs
  /\ created_at = 0
  /\ updated_at = IF messages = <<>> THEN 0 ELSE Len(messages)
  /\ now = FnMaxLen + 1
  /\ nextId = Len(messages) + 1
  /\ manager = CHOOSE m \in Managers : TRUE
  /\ stored = NotStored
  /\ last = LastInit
  /\ StorageInit

NextCompact ==
  \/ \E strategy \in Strategies, target_tokens \in Budgets :
       last.op = "new" /\ Compact(strategy, target_tokens)
  \/ CompactAgain
  \/ \E c \in Compactors, target_tokens \in Budgets :
       last.op = "new" /\ CompactorRun(c, target_tokens)
  \/ CompactorAgain
  \/ \E count \in 0..(FnMaxLen + 1) :
       last.op = "new" /\ RecentMessages(count)
  \/ \E format \in Formats :
       last.op = "new" /\ FormatRoundTrip(format)

SpecCompact == InitCompact /\ [][NextCompact]_vars

\* ---------------------------------------------------------------- message_priority
\* IntelligentCompactor::message_priority on logs whose turns have the same
\* content length under every role, and a content beyond the cap.

\* the longest log given to message_priority
ScorerMaxLen == 3

ScorerKinds ==
  { [role |-> r, content_len |-> 40, content_chars |-> 40, token_count |-> None] :
      r \in Roles }
    \cup { [role |-> "User", content_len |-> 1200, content_chars |-> 1200,
            token_count |-> None] }

ScorerLogs ==
  UNION { { [i \in 1..n |-> NewMessage(f[i], i, i)] : f \in [1..n -> ScorerKinds] } :
          n \in 0..ScorerMaxLen }

\* IntelligentCompactor values: the default one, and ones whose public
\* weight fields were set to zero or below
ScorerCompactors ==
  { DefaultCompactor,
    [DefaultCompactor EXCEPT !.role_weight = 0],
    [DefaultCompactor EXCEPT !.recency_weight = 0],
    [DefaultCompactor EXCEPT !.role_weight = -5] }

\* compactor.message_priority(&session.messages[i], &session)
MessagePriority(c, i) ==
  /\ i \in 1..Len(messages)
  /\ last' = [LastInit EXCEPT !.op = "message_priority", !.strategy = c,
                              !.target = i, !.before = messages,
                              !.message = messages[i],
                              !.returned = <<message_priority(c, messages[i], messages)>>]
  /\ UNCHANGED <<messages, created_at, updated_at, now, nextId, manager, stored,
                 storageVars>>

InitScorer ==
  /\ messages \in ScorerLogs
  /\ created_at = 0
  /\ updated_at = IF messages = <<>> THEN 0 ELSE Len(messages)
  /\ now = ScorerMaxLen + 1
  /\ nextId = Len(messages) + 1
  /\ manager = CHOOSE m \in Managers : TRUE
  /\ stored = NotStored
  /\ last = LastInit
  /\ StorageInit

NextScorer ==
  \E c \in ScorerCompactors, i \in 1..ScorerMaxLen :
    last.op = "new" /\ MessagePriority(c, i)

SpecScorer == InitScorer /\ [][NextScorer]_vars

\* ---------------------------------------------------------------- SystemAndRecent
\* SystemAndRecent on logs whose System turns differ in size.

\* the longest log given to SystemAndRecent
ScanMaxLen == 4

\* the kinds of turn, and a short System turn (8 bytes, 2 tokens)
ScanKinds ==
  MessageKinds \cup
    { [role |-> "System", content_len |-> 8, content_chars |-> 8, token_count |-> None] }

ScanLogs ==
  UNION { { [i \in 1..n |-> NewMessage(f[i], i, i)] : f \in [1..n -> ScanKinds] } :
          n \in 0..ScanMaxLen }

InitSystemAndRecent ==
  /\ messages \in ScanLogs
  /\ created_at = 0
  /\ updated_at = IF messages = <<>> THEN 0 ELSE Len(messages)
  /\ now = ScanMaxLen + 1
  /\ nextId = Len(messages) + 1
  /\ manager = CHOOSE m \in Managers : TRUE
  /\ stored = NotStored
  /\ last = LastInit
  /\ StorageInit

NextSystemAndRecent ==
  \/ \E strategy \in {st \in Strategies : st.kind = "SystemAndRecent"},
        target_tokens \in Budgets :
       last.op = "new" /\ Compact(strategy, target_tokens)
  \/ CompactAgain

SpecSystemAndRecent == InitSystemAndRecent /\ [][NextSystemAndRecent]_vars

\* ---------------------------------------------------------------- the store
\* the file system clock advances
FsTick ==
  /\ fs_time < MaxFsTime
  /\ fs_time' = fs_time + 1
  /\ UNCHANGED <<files, latest_symlink, io, saved, sessionVars>>

\* FileStorage::save_session(session)
SaveSession(session) ==
  /\ LET r == save_session(files, latest_symlink, fs_time, session) IN
       /\ files' = r.files
       /\ latest_symlink' = r.link
       /\ io' = [IoInit EXCEPT !.op = "save_session", !.id = session.id,
                               !.result = r.result, !.before = files,
                               !.latest_before = latest_symlink]
  /\ saved' = [written |-> [saved.written EXCEPT ![session.id] = session],
               last |-> session.id,
               replaced |-> /\ files[session.id].present
                            /\ files[session.id].data # Serialize(session)]
  /\ UNCHANGED <<fs_time, sessionVars>>

\* FileStorage::load_session(session_id)
LoadSession(session_id) ==
  /\ LET r == load_session(files, session_id) IN
       io' = [IoInit EXCEPT !.op = "load_session", !.id = session_id,
                            !.result = r.result, !.session = r.session,
                            !.before = files, !.latest_before = latest_symlink]
  /\ UNCHANGED <<files, latest_symlink, fs_time, saved, sessionVars>>

\* FileStorage::load_latest_session()
LoadLatestSession ==
  /\ LET r == load_latest_session(files, latest_symlink) IN
       io' = [IoInit EXCEPT !.op = "load_latest_session",
                            !.result = r.result, !.session = r.session]
  /\ UNCHANGED <<files, latest_symlink, fs_time, saved, sessionVars>>

\* FileStorage::delete_session(session_id)
DeleteSession(session_id) ==
  /\ LET r == delete_session(files, latest_symlink, session_id) IN
       /\ files' = r.files
       /\ latest_symlink' = r.link
       /\ io' = [IoInit EXCEPT !.op = "delete_session", !.id = session_id,
                               !.result = r.result, !.before = files,
                               !.latest_before = latest_symlink]
       /\ saved' = [saved EXCEPT !.written =
                      [id \in FileIds |->
                         IF r.files[id].present THEN saved.written[id] ELSE NoSession]]
  /\ UNCHANGED <<fs_time, sessionVars>>

\* FileStorage::cleanup_old_sessions(keep_count)
CleanupOldSessions(keep_count) ==
  /\ \E sessions \in list_sessions(files) :
       LET r == cleanup_old_sessions(files, latest_symlink, sessions, keep_count) IN
         /\ files' = r.files
         /\ latest_symlink' = r.link
         /\ io' = [IoInit EXCEPT !.op = "cleanup_old_sessions",
                                 !.keep_count = keep_count, !.count = r.count,
                                 !.before = files,
                                 !.latest_before = latest_symlink]
         /\ saved' = [saved EXCEPT !.written =
                        [id \in FileIds |->
                           IF r.files[id].present THEN saved.written[id] ELSE NoSession]]
  /\ UNCHANGED <<fs_time, sessionVars>>

InitStorage ==
  /\ messages = <<>>
  /\ created_at = 0
  /\ updated_at = 0
  /\ now = 0
  /\ nextId = 1
  /\ manager = CHOOSE m \in Managers : TRUE
  /\ stored = NotStored
  /\ last = LastInit
  /\ StorageInit

NextStorage ==
  \/ FsTick
  \/ \E id \in SessionIds : \E session \in SessionVersions(id) : SaveSession(session)
  \/ \E id \in SessionIds : LoadSession(id)
  \/ LoadLatestSession
  \/ \E id \in SessionIds : DeleteSession(id)
  \/ \E keep_count \in 0..MaxSessions : CleanupOldSessions(keep_count)

SpecStorage == InitStorage /\ [][NextStorage]_vars

\* ---------------------------------------------------------------- load_latest
\* SessionManager::load_latest()
ManagerLoadLatest ==
  /\ \/ load_latest_session(files, latest_symlink).session # NoSession
     \/ nextId <= MaxNewSessions
  /\ LET r == manager_load_latest(files, latest_symlink, fs_time, manager.auto_save,
                                  MaxSessions + nextId, now) IN
       /\ files' = r.files
       /\ latest_symlink' = r.link
       /\ io' = [IoInit EXCEPT !.op = "manager_load_latest", !.result = r.result,
                               !.session = r.session, !.before = files,
                               !.latest_before = latest_symlink,
                               !.save_called = r.saving]
       /\ nextId' = IF r.created THEN nextId + 1 ELSE nextId
       /\ saved' = IF r.saving
                   THEN [written |-> [saved.written EXCEPT ![MaxSessions + nextId] =
                                        NewSession(MaxSessions + nextId, now)],
                         last |-> MaxSessions + nextId, replaced |-> FALSE]
                   ELSE saved
  /\ UNCHANGED <<messages, created_at, updated_at, now, manager, stored, last, fs_time>>

\* SessionManager::new_session()
ManagerNewSession ==
  /\ nextId <= MaxNewSessions
  /\ LET r == manager_new_session(files, latest_symlink, fs_time, manager.auto_save,
                                  MaxSessions + nextId, now) IN
       /\ files' = r.files
       /\ latest_symlink' = r.link
       /\ io' = [IoInit EXCEPT !.op = "manager_new_session", !.result = r.result,
                               !.session = r.session, !.before = files,
                               !.latest_before = latest_symlink,
                               !.save_called = r.saving]
       /\ saved' = IF r.saving
                   THEN [written |-> [saved.written EXCEPT ![MaxSessions + nextId] =
                                        NewSession(MaxSessions + nextId, now)],
                         last |-> MaxSessions + nextId, replaced |-> FALSE]
                   ELSE saved
  /\ nextId' = nextId + 1
  /\ UNCHANGED <<messages, created_at, updated_at, now, manager, stored, last, fs_time>>

\* the id of the session the caller holds in memory
CallerSessionId == 1

\* the session the caller holds in memory
CallerSession ==
  [id |-> CallerSessionId, name |-> "session-19700101-000000",
   created_at |-> created_at, updated_at |-> updated_at,
   messages |-> messages, metadata |-> {}]

\* the turns the caller adds through the manager: a System and a User turn
ManagerKinds == {k \in MessageKinds : k.role \in {"System", "User"}}

\* SessionManager::add_message(&mut session, Message::new(..)) with a
\* FileStorage behind the manager
ManagerAddMessageStored(kind) ==
  /\ nextId <= MaxMsgs
  /\ LET message == NewMessage(kind, nextId, now)
         r == manager_add_message(files, latest_symlink, fs_time, manager,
                                  CallerSession, message, now)
     IN /\ messages' = r.session.messages
        /\ updated_at' = r.session.updated_at
        /\ files' = r.files
        /\ latest_symlink' = r.link
        /\ last' = [op |-> "manager_add_message",
                    strategy |-> manager.compaction_strategy,
                    target |-> manager.max_tokens, before |-> messages,
                    message |-> message, saved |-> r.saving, returned |-> <<>>,
                    result |-> r.result]
        /\ io' = [IoInit EXCEPT !.op = "manager_add_message", !.id = CallerSessionId,
                                !.result = r.result, !.before = files,
                                !.latest_before = latest_symlink,
                                !.save_called = r.saving]
        /\ saved' = IF r.saving
                    THEN [written |-> [saved.written EXCEPT ![CallerSessionId] = r.session],
                          last |-> CallerSessionId,
                          replaced |-> /\ files[CallerSessionId].present
                                       /\ files[CallerSessionId].data
                                            # Serialize(r.session)]
                    ELSE saved
  /\ nextId' = nextId + 1
  /\ UNCHANGED <<created_at, now, manager, stored, fs_time>>

\* a SessionManager over a new directory, with auto_save set or not
InitManager ==
  /\ messages = <<>>
  /\ created_at = 0
  /\ updated_at = 0
  /\ now = 0
  /\ nextId = 1
  /\ manager \in {m \in Managers :
                    /\ m.compaction_strategy = [kind |-> "Sliding", max_tokens |-> 10]
                    /\ m.max_tokens = 10}
  /\ stored = NotStored
  /\ last = LastInit
  /\ StorageInit

NextManager ==
  \/ \E id \in SessionIds : \E session \in SessionVersions(id) : SaveSession(session)
  \/ \E id \in FileIds : DeleteSession(id)
  \/ ManagerLoadLatest

SpecManager == InitManager /\ [][NextManager]_vars

\* the calls of a SessionManager that may save: load_latest, new_session and
\* add_message, over a directory where another session is saved and deleted
NextAutoSave ==
  \/ \E session \in SessionVersions(MaxSessions) : SaveSession(session)
  \/ DeleteSession(MaxSessions)
  \/ ManagerLoadLatest
  \/ ManagerNewSession
  \/ \E kind \in ManagerKinds : ManagerAddMessageStored(kind)

SpecAutoSave == InitManager /\ [][NextAutoSave]_vars

\* ---------------------------------------------------------------- properties
RECURSIVE IsSubseq(_, _)
\* a is b with some elements left out
IsSubseq(a, b) ==
  IF a = <<>> THEN TRUE
  ELSE IF b = <<>> THEN FALSE
  ELSE IF Head(a) = Head(b) THEN IsSubseq(Tail(a), Tail(b))
  ELSE IsSubseq(a, Tail(b))

Count(m, seq) == Cardinality({i \in 1..Len(seq) : seq[i] = m})

IsSystem(m) == m.role = "System"

IsNotSystem(m) == m.role # "System"

Suffix(seq, k) == SubSeq(seq, k + 1, Len(seq))

\* the longest suffix of seq whose tokens total at most max_tokens
LongestSuffix(seq, max_tokens) ==
  Suffix(seq, CHOOSE k \in 0..Len(seq) :
                /\ total_tokens(Suffix(seq, k)) <= max_tokens
                /\ \A j \in 0..(k - 1) : total_tokens(Suffix(seq, j)) > max_tokens)

TokensOf(seq) == [i \in 1..Len(seq) |-> estimate_tokens(seq[i])]

RolesOf(seq) == [i \in 1..Len(seq) |-> seq[i].role]

\* C1: after Session::compact(policy, budget) on a log none of whose turns
\* alone exceeds the budget, total_tokens() <= budget or the log is empty,
\* whatever the policy's own parameters are.
C1_BudgetConvergence ==
  (/\ last.op = "compact"
   /\ \A i \in 1..Len(last.before) : estimate_tokens(last.before[i]) <= last.target)
  => (total_tokens(messages) <= last.target \/ messages = <<>>)

\* C2: the log SessionManager::add_message hands to storage.save_session is
\* within max_tokens unless the turn just appended alone exceeds max_tokens.
C2_SavedWithinBudget ==
  (last.op = "manager_add_message" /\ last.saved)
  => (\/ total_tokens(messages) <= last.target
      \/ estimate_tokens(last.message) > last.target)

\* C3: the turn appended by SessionManager::add_message is still in the log
\* when the call returns.
C3_AppendedTurnKept ==
  last.op = "manager_add_message"
  => \E i \in 1..Len(messages) : messages[i] = last.message

\* C4: with the Sliding and the Intelligent policy of Session::compact and
\* with IntelligentCompactor::compact the surviving turns are a subsequence
\* of the turns before.
C4_SurvivorsAreSubsequence ==
  (\/ last.op = "compact" /\ last.strategy.kind \in {"Sliding", "Intelligent"}
   \/ last.op = "compactor")
  => IsSubseq(messages, last.before)

\* C5: the turns of the log are in non-decreasing timestamp order in every
\* state reached from the empty log by appends and compactions.
C5_TimestampOrder ==
  \A i \in 1..(Len(messages) - 1) : messages[i].timestamp <= messages[i + 1].timestamp

\* C6: compacting a second time with the same policy and budget leaves the
\* turn sequence the first compaction left.
C6_Idempotent ==
  last.op \in {"compact_again", "compactor_again"} => messages = last.before

\* C6 witness: the first call removed turns, left some, and the log is still
\* over the budget, so that the second call runs the policy again.
C6_Witness ==
  /\ last.op = "compact_again"
  /\ total_tokens(last.before) > last.target
  /\ Len(last.before) < nextId - 1
  /\ messages # <<>>

\* C7: a compaction of a log that is within the budget returns Ok and
\* leaves the turn sequence as it was.
C7_NoOpUnderBudget ==
  (last.op \in {"compact", "compactor"} /\ total_tokens(last.before) <= last.target)
  => (messages = last.before /\ last.result = "Ok")

\* C7 witness: a log within the budget but above the Sliding policy's own
\* max_tokens was compacted.
C7_Witness ==
  /\ last.op = "compact"
  /\ last.strategy.kind = "Sliding"
  /\ total_tokens(last.before) <= last.target
  /\ total_tokens(last.before) > last.strategy.max_tokens
  /\ messages = last.before

\* C8: every turn of the log after a compaction is a turn of the log before
\* it, unaltered, and occurs no more often than before.
C8_OnlyWholeTurnsRemoved ==
  last.op \in {"compact", "compactor"}
  => \A i \in 1..Len(messages) :
       Count(messages[i], messages) <= Count(messages[i], last.before)

\* C8 witness: SystemAndRecent kept a System turn and a non-System turn and
\* removed others.
C8_Witness ==
  /\ last.op = "compact"
  /\ last.strategy.kind = "SystemAndRecent"
  /\ Len(messages) < Len(last.before)
  /\ \E i, j \in 1..Len(messages) : IsSystem(messages[i]) /\ IsNotSystem(messages[j])

\* C9: Sliding on a log over the budget leaves the longest suffix of the
\* log whose total is at most max_tokens.
C9_SlidingLongestSuffix ==
  (/\ last.op = "compact"
   /\ last.strategy.kind = "Sliding"
   /\ total_tokens(last.before) > last.target)
  => messages = LongestSuffix(last.before, last.strategy.max_tokens)

\* C9 witness: five turns of 10 tokens, max_tokens = 25, the two most
\* recent turns are left.
C9_Witness ==
  /\ last.op = "compact"
  /\ last.strategy = [kind |-> "Sliding", max_tokens |-> 25]
  /\ TokensOf(last.before) = <<10, 10, 10, 10, 10>>
  /\ messages = <<last.before[4], last.before[5]>>

\* C10: SystemAndRecent on a log over the budget leaves the kept System
\* turns in their original order followed by the kept non-System turns in
\* their original order; one System turn of 8 tokens and five others of 10
\* with budgets 10 and 25 give [system, turn4, turn5].
C10_SystemThenRecent ==
  (/\ last.op = "compact"
   /\ last.strategy.kind = "SystemAndRecent"
   /\ total_tokens(last.before) > last.target)
  => /\ messages = SelectSeq(messages, IsSystem) \o SelectSeq(messages, IsNotSystem)
     /\ IsSubseq(SelectSeq(messages, IsSystem), last.before)
     /\ IsSubseq(SelectSeq(messages, IsNotSystem), last.before)
     /\ (/\ last.strategy.system_tokens = 10
         /\ last.strategy.recent_tokens = 25
         /\ TokensOf(last.before) = <<8, 10, 10, 10, 10, 10>>
         /\ RolesOf(last.before)[1] = "System"
         /\ \A i \in 2..6 : RolesOf(last.before)[i] # "System")
        => messages = <<last.before[1], last.before[5], last.before[6]>>

\* C10 witness: the scenario of one System turn and five turns of 10 tokens.
C10_Witness ==
  /\ last.op = "compact"
  /\ last.strategy = [kind |-> "SystemAndRecent", system_tokens |-> 10, recent_tokens |-> 25]
  /\ TokensOf(last.before) = <<8, 10, 10, 10, 10, 10>>
  /\ RolesOf(last.before) = <<"System", "User", "Assistant", "User", "Assistant", "User">>
  /\ Len(messages) = 3
  /\ RolesOf(messages) = <<"System", "Assistant", "User">>

\* the number of turns a compaction of kind l retains unconditionally:
\* min_recent_messages of the compactor used, of the default one for the
\* Intelligent policy of Session::compact
MinRecentOf(l) ==
  IF l.op = "compactor" THEN l.strategy.min_recent_messages
  ELSE DefaultCompactor.min_recent_messages

\* the last n turns of seq, all of them when seq is shorter
LastTurns(seq, n) ==
  IF n >= Len(seq) THEN seq ELSE SubSeq(seq, Len(seq) - n + 1, Len(seq))

\* C11: when a compaction with the Intelligent policy runs, the last
\* min(min_recent, length) turns of the log are the last turns of the result.
C11_RecentRetained ==
  (/\ \/ last.op = "compactor"
      \/ last.op = "compact" /\ last.strategy.kind = "Intelligent"
   /\ total_tokens(last.before) > last.target)
  => LastTurns(messages, MinRecentOf(last)) = LastTurns(last.before, MinRecentOf(last))

\* target admits the first turn of seq, and no two turns, in addition to
\* the last k turns
AdmitsExactlyOne(seq, k, target) ==
  LET reserved == total_tokens(LastTurns(seq, k))
      n == Len(seq) - k
  IN /\ n >= 1
     /\ reserved + estimate_tokens(seq[1]) <= target
     /\ \A i, j \in 1..n :
          i < j => reserved + estimate_tokens(seq[i]) + estimate_tokens(seq[j]) > target

\* C12: six turns with roles System, User, Assistant, User, Assistant, Tool,
\* min_recent = 2, default weights and a target admitting exactly one turn
\* besides the last two: the result is [System turn, fifth turn, sixth turn].
C12_IntelligentScenario ==
  (/\ last.op = "compactor"
   /\ last.strategy = [DefaultCompactor EXCEPT !.min_recent_messages = 2]
   /\ total_tokens(last.before) > last.target
   /\ RolesOf(last.before) = <<"System", "User", "Assistant", "User", "Assistant", "Tool">>
   /\ AdmitsExactlyOne(last.before, 2, last.target))
  => messages = <<last.before[1], last.before[5], last.before[6]>>

C14_UpdatedAtFollowsMutation ==
  [][/\ updated_at' >= created_at'
     /\ messages' # messages => updated_at' = now']_vars

\* C15: when save_session fails inside SessionManager::add_message the call
\* returns the error and the log holds the appended turn and the result of
\* the compaction.
C15_FailedSaveKeepsAppend ==
  (last.op = "manager_add_message" /\ last.result = "Err")
  => /\ \E i \in 1..Len(messages) : messages[i] = last.message
     /\ LET appended == Append(last.before, last.message) IN
          messages = IF total_tokens(appended) > last.target
                     THEN SessionCompact(appended, last.strategy, last.target)
                     ELSE appended

PresentIds(fs) == {id \in DOMAIN fs : fs[id].present}

\* C16: load_session(id) returns the session most recently saved under id,
\* equal in every field and in the turns and their order, when id was not
\* deleted since that save.
C16_RoundTripLastWriteWins ==
  /\ \A id \in FileIds :
       saved.written[id] # NoSession
       => load_session(files, id) = [result |-> "Ok", session |-> saved.written[id]]
  /\ (io.op = "load_session" /\ saved.written[io.id] # NoSession)
     => (io.result = "Ok" /\ io.session = saved.written[io.id])

\* C16 witness: a session was saved over different data under the same id
\* and then loaded.
C16_Witness ==
  /\ io.op = "load_session"
  /\ io.id = saved.last
  /\ saved.replaced
  /\ io.result = "Ok"
  /\ io.session = saved.written[io.id]
  /\ Len(io.session.messages) = 2

\* C17: when the session of the most recent save_session call has not been
\* deleted, load_latest_session returns that session.
C17_LatestIsMostRecentSave ==
  (saved.last # 0 /\ saved.written[saved.last] # NoSession)
  => load_latest_session(files, latest_symlink)
       = [result |-> "Ok", session |-> saved.written[saved.last]]

\* C18: cleanup_old_sessions(k) on n stored sessions deletes nothing and
\* returns 0 if n <= k; otherwise it deletes exactly the n - k least
\* recently modified sessions, returns n - k, and list_sessions then returns
\* exactly the k most recently modified ones.
C18_CleanupKeepsNewest ==
  io.op = "cleanup_old_sessions"
  => LET n == Cardinality(PresentIds(io.before))
         k == io.keep_count
         deleted == PresentIds(io.before) \ PresentIds(files)
     IN  /\ io.result = "Ok"
         /\ PresentIds(files) \subseteq PresentIds(io.before)
         /\ \A id \in PresentIds(files) : files[id] = io.before[id]
         /\ n <= k => (deleted = {} /\ io.count = 0)
         /\ n > k => /\ io.count = n - k
                     /\ Cardinality(deleted) = n - k
                     /\ \A d \in deleted, r \in PresentIds(files) :
                          io.before[d].mtime <= io.before[r].mtime
                     /\ \A listing \in list_sessions(files) :
                          /\ Len(listing) = k
                          /\ {listing[i].id : i \in 1..Len(listing)} = PresentIds(files)

\* C18 witness: a cleanup deleted an older session and kept a newer one.
C18_Witness ==
  /\ io.op = "cleanup_old_sessions"
  /\ io.keep_count >= 1
  /\ io.count >= 1
  /\ \E d \in PresentIds(io.before) \ PresentIds(files), r \in PresentIds(files) :
       io.before[d].mtime < io.before[r].mtime

\* C21: recent_messages(n) returns the last min(n, length) turns of the log
\* in their original order: the whole log for n >= length, nothing for n = 0.
C21_RecentMessages ==
  last.op = "recent_messages"
  => LET n == last.target
         length == Len(last.before)
         m == IF n < length THEN n ELSE length
     IN  /\ messages = last.before
         /\ Len(last.returned) = m
         /\ \A i \in 1..m : last.returned[i] = last.before[length - m + i]
         /\ n >= length => last.returned = last.before
         /\ n = 0 => last.returned = <<>>

\* C21 witness: some but not all turns were asked for, and the first of
\* them differs from the first turn of the log.
C21_Witness ==
  /\ last.op = "recent_messages"
  /\ last.target > 0
  /\ last.target < Len(last.before)
  /\ Len(last.returned) = last.target
  /\ last.returned[1] # last.before[1]

SameContent(a, b) ==
  a.content_len = b.content_len /\ a.content_chars = b.content_chars

\* C22: for BedrockFormat and OpenAIFormat, from_session gives one wire
\* message per turn, in order, with the turn's content; to_session of it
\* gives as many turns with the same contents in the same order; the roles
\* come back unchanged, except that BedrockFormat turns Tool into User.
C22_FormatRoundTrip ==
  last.op = "format_round_trip"
  => LET s == last.before
         wire == last.returned
     IN  /\ Len(wire) = Len(s)
         /\ Len(messages) = Len(s)
         /\ \A i \in 1..Len(s) :
              /\ SameContent(wire[i], s[i])
              /\ SameContent(messages[i], s[i])
              /\ messages[i].role =
                   IF last.strategy.kind = "Bedrock" /\ s[i].role = "Tool"
                   THEN "User" ELSE s[i].role

\* C22 witness: a log with a Tool turn and a turn of another role went
\* through OpenAIFormat and back.
C22_Witness ==
  /\ last.op = "format_round_trip"
  /\ last.strategy.kind = "OpenAI"
  /\ \E i, j \in 1..Len(messages) :
       /\ i < j
       /\ last.before[i].role = "Tool" /\ messages[i].role = "Tool"
       /\ last.before[j].role = "System" /\ messages[j].role = "System"

\* the last call was a delete_session that deleted the session the latest
\* pointer resolved to
DeletedTheLatest(call) ==
  /\ call.op = "delete_session"
  /\ call.result = "Ok"
  /\ call.latest_before = call.id

\* C23: after delete_session deletes the session the latest pointer resolves
\* to, load_latest_session returns None, and the next save_session of any
\* session returns success and makes that session the one
\* load_latest_session returns.
C23_DeleteLatestThenSave ==
  [][/\ DeletedTheLatest(io')
        => load_latest_session(files', latest_symlink')
             = [result |-> "Ok", session |-> NoSession]
     /\ (DeletedTheLatest(io) /\ io'.op = "save_session")
        => /\ io'.result = "Ok"
           /\ load_latest_session(files', latest_symlink')
                = [result |-> "Ok", session |-> saved'.written[io'.id]]]_vars

\* C24: save_session either returns success with the session file written
\* and the latest pointer resolving to it, or returns an error with the
\* stored sessions and the latest pointer as they were before the call.
C24_SaveIsAtomic ==
  io.op = "save_session"
  => \/ /\ io.result = "Ok"
        /\ files[io.id].present
        /\ Deserialize(files[io.id].data) = saved.written[io.id]
        /\ load_latest_session(files, latest_symlink)
             = [result |-> "Ok", session |-> saved.written[io.id]]
     \/ /\ io.result # "Ok"
        /\ files = io.before
        /\ latest_symlink = io.latest_before

\* Session::compact ran the SystemAndRecent policy
RanSystemAndRecent ==
  /\ last.op = "compact"
  /\ last.strategy.kind = "SystemAndRecent"
  /\ total_tokens(last.before) > last.target

RECURSIVE SystemTokensKept(_, _, _)
\* the tokens of the System turns kept among the first i turns of seq, a
\* System turn being kept exactly when it fits with those kept before it
SystemTokensKept(seq, i, budget) ==
  IF i = 0 THEN 0
  ELSE LET before == SystemTokensKept(seq, i - 1, budget) IN
       IF IsSystem(seq[i]) /\ before + estimate_tokens(seq[i]) <= budget
       THEN before + estimate_tokens(seq[i])
       ELSE before

SystemTurnFits(seq, i, budget) ==
  /\ IsSystem(seq[i])
  /\ SystemTokensKept(seq, i - 1, budget) + estimate_tokens(seq[i]) <= budget

\* C25: SystemAndRecent keeps a System turn exactly when the tokens of the
\* System turns kept so far plus its own are <= system_budget; a System turn
\* that does not fit is passed over and later ones are still considered;
\* the kept System turns total <= system_budget.
C25_SystemSelection ==
  RanSystemAndRecent
  => LET budget == last.strategy.system_tokens
         kept == SelectSeq(messages, IsSystem)
     IN  /\ \A i \in 1..Len(last.before) :
              IsSystem(last.before[i])
              => (SystemTurnFits(last.before, i, budget)
                  <=> \E j \in 1..Len(kept) : kept[j] = last.before[i])
         /\ IsSubseq(kept, last.before)
         /\ total_tokens(kept) <= budget

\* C25 witness: a System turn that did not fit was dropped and a later,
\* smaller System turn was kept.
C25_Witness ==
  /\ RanSystemAndRecent
  /\ \E i, j \in 1..Len(last.before) :
       /\ i < j
       /\ IsSystem(last.before[i]) /\ IsSystem(last.before[j])
       /\ \A k \in 1..Len(messages) : messages[k] # last.before[i]
       /\ \E k \in 1..Len(messages) : messages[k] = last.before[j]

\* C26: SystemAndRecent keeps of the non-System turns exactly the longest
\* suffix of the non-System subsequence whose tokens total <= recent_budget;
\* every older non-System turn is dropped, also one that would fit in the
\* budget left over.
C26_RecentSelection ==
  RanSystemAndRecent
  => LET budget == last.strategy.recent_tokens
         candidates == SelectSeq(last.before, IsNotSystem)
         kept == SelectSeq(messages, IsNotSystem)
         n == Len(candidates)
     IN  /\ Len(kept) <= n
         /\ kept = SubSeq(candidates, n - Len(kept) + 1, n)
         /\ total_tokens(kept) <= budget
         /\ Len(kept) < n
            => total_tokens(SubSeq(candidates, n - Len(kept), n)) > budget

\* C26 witness: a non-System turn older than the one that overflowed was
\* dropped although it fits in the budget left over.
C26_Witness ==
  /\ RanSystemAndRecent
  /\ LET candidates == SelectSeq(last.before, IsNotSystem)
         kept == SelectSeq(messages, IsNotSystem)
     IN  /\ kept # <<>>
         /\ Len(kept) + 2 <= Len(candidates)
         /\ \E i \in 1..(Len(candidates) - Len(kept) - 1) :
              estimate_tokens(candidates[i]) + total_tokens(kept)
                <= last.strategy.recent_tokens

\* the compactor whose weights and min_recent_messages apply to the last call
CompactorOf(l) == IF l.op = "compactor" THEN l.strategy ELSE DefaultCompactor

\* the budget the Intelligent selection of the last call works with
TargetOf(l) == IF l.op = "compactor" THEN l.target ELSE l.strategy.target_tokens

\* candidate i is visited before candidate j: higher score first
VisitedBefore(l, i, j) ==
  LET pi == message_priority(CompactorOf(l), l.before[i], l.before)
      pj == message_priority(CompactorOf(l), l.before[j], l.before)
  IN  pi > pj \/ (pi = pj /\ i < j)

RECURSIVE TokensOfIndices(_, _)
TokensOfIndices(seq, indices) ==
  IF indices = {} THEN 0
  ELSE LET i == CHOOSE x \in indices : TRUE
       IN  estimate_tokens(seq[i]) + TokensOfIndices(seq, indices \ {i})

\* C27: Intelligent visits the candidates (the turns before the reserved
\* recent ones) in descending score order and keeps a candidate exactly when
\* reserved_tokens plus the tokens of the candidates accepted before it plus
\* its own are <= target_tokens; a rejected candidate does not end the scan.
C27_GreedyAcceptance ==
  (/\ \/ last.op = "compactor"
      \/ last.op = "compact" /\ last.strategy.kind = "Intelligent"
   /\ total_tokens(last.before) > last.target)
  => LET n == Len(last.before)
         reserved == LastTurns(last.before, MinRecentOf(last))
         candidates == 1..(n - Len(reserved))
         accepted == {i \in candidates :
                        \E k \in 1..Len(messages) : messages[k] = last.before[i]}
     IN  \A i \in candidates :
           i \in accepted
           <=> total_tokens(reserved)
                 + TokensOfIndices(last.before,
                                   {j \in accepted : VisitedBefore(last, j, i)})
                 + estimate_tokens(last.before[i])
               <= TargetOf(last)

\* the greedy acceptance holds of IntelligentCompactor::compact
C27_CompactorGreedyAcceptance ==
  last.op = "compactor" => C27_GreedyAcceptance

\* a candidate was rejected and a lower-scored one was kept after it
C27_CompactorWitness ==
  /\ last.op = "compactor"
  /\ total_tokens(last.before) > last.target
  /\ \E i, j \in 1..(Len(last.before) - MinRecentOf(last)) :
       /\ VisitedBefore(last, i, j)
       /\ \A k \in 1..Len(messages) : messages[k] # last.before[i]
       /\ \E k \in 1..Len(messages) : messages[k] = last.before[j]

\* the claimed role scores, in tenths
ClaimedRoleScore(role) ==
  CASE role = "System" -> 10 [] role = "Tool" -> 8
    [] role = "Assistant" -> 6 [] role = "User" -> 4

\* (i / n) * recency_weight + role_score * role_weight
\*   + min(content_length / 1000, 1) * content_weight,
\* multiplied by 100000 * n, with the weights and role scores in tenths
ClaimedScore(c, i, role, content_len, n) ==
  i * c.recency_weight * 10000
    + ClaimedRoleScore(role) * c.role_weight * 1000 * n
    + (IF content_len < 1000 THEN content_len ELSE 1000) * c.content_weight * 10 * n

\* the score of the last call had the turn borne the role r
ScoreWithRole(r) ==
  LET turn == [last.message EXCEPT !.role = r]
      log == [last.before EXCEPT ![last.target] = turn]
  IN  message_priority(last.strategy, turn, log)

\* the turns after the scored one with its role and content length
LaterAlike ==
  {j \in (last.target + 1)..Len(last.before) :
     /\ last.before[j].role = last.message.role
     /\ last.before[j].content_len = last.message.content_len}

ScoreIsClaimedFormula ==
  last.returned[1] = ClaimedScore(last.strategy, last.target - 1, last.message.role,
                                  last.message.content_len, Len(last.before))

\* C28: message_priority returns (i / n) * recency_weight + role_score *
\* role_weight + min(content_length / 1000, 1) * content_weight with role
\* scores System 1.0, Tool 0.8, Assistant 0.6, User 0.4; hence for equal
\* index and content length System ranks above Tool above Assistant above
\* User, and for equal role and content length a later turn ranks above an
\* earlier one.
C28_RetentionScore ==
  last.op = "message_priority"
  => /\ ScoreIsClaimedFormula
     /\ ScoreWithRole("System") > ScoreWithRole("Tool")
     /\ ScoreWithRole("Tool") > ScoreWithRole("Assistant")
     /\ ScoreWithRole("Assistant") > ScoreWithRole("User")
     /\ \A j \in LaterAlike :
          message_priority(last.strategy, last.before[j], last.before) > last.returned[1]

\* C28 amended: the score is the claimed weighted sum; when role_weight is
\* not negative no role ranks below a role of lower role score, when
\* recency_weight is not negative no later turn ranks below an earlier one
\* like it, and with the default weights both rankings are strict.
C28_RetentionScoreByWeights ==
  last.op = "message_priority"
  => /\ ScoreIsClaimedFormula
     /\ last.strategy.role_weight >= 0
        => /\ ScoreWithRole("System") >= ScoreWithRole("Tool")
           /\ ScoreWithRole("Tool") >= ScoreWithRole("Assistant")
           /\ ScoreWithRole("Assistant") >= ScoreWithRole("User")
     /\ last.strategy.recency_weight >= 0
        => \A j \in LaterAlike :
             message_priority(last.strategy, last.before[j], last.before)
               >= last.returned[1]
     /\ last.strategy = DefaultCompactor
        => /\ ScoreWithRole("System") > ScoreWithRole("Tool")
           /\ ScoreWithRole("Tool") > ScoreWithRole("Assistant")
           /\ ScoreWithRole("Assistant") > ScoreWithRole("User")
           /\ \A j \in LaterAlike :
                message_priority(last.strategy, last.before[j], last.before)
                  > last.returned[1]

\* C28 witness: the default compactor scored a turn that is neither first
\* nor last, with a later turn like it, in a log holding a content beyond
\* the cap.
C28_Witness ==
  /\ last.op = "message_priority"
  /\ last.strategy = DefaultCompactor
  /\ last.target > 1
  /\ LaterAlike # {}
  /\ \E j \in 1..Len(last.before) : last.before[j].content_len > ContentCap

\* C29: load_session and delete_session of an identifier that is not stored
\* return SessionNotFound and leave the stored sessions and the latest
\* pointer unchanged.
C29_NotFound ==
  (io.op \in {"load_session", "delete_session"} /\ ~io.before[io.id].present)
  => /\ io.result = "SessionNotFound"
     /\ files = io.before
     /\ latest_symlink = io.latest_before

\* C29 witness: delete_session of the id the latest pointer names, after
\* that session was deleted, while another session is stored.
C29_Witness ==
  /\ io.op = "delete_session"
  /\ io.result = "SessionNotFound"
  /\ latest_symlink = io.id
  /\ PresentIds(files) # {}

\* the step is a call of SessionManager::load_latest
LoadLatestStep ==
  /\ io'.op = "manager_load_latest"
  /\ io' # io \/ nextId' # nextId

\* C30: SessionManager::load_latest returns the most recently saved session
\* when one exists; when none exists, with auto_save enabled, it creates and
\* saves a new empty session, and a load_latest right after it returns a
\* session with the same id instead of creating another one.
C30_LoadLatest ==
  [][LoadLatestStep
     => /\ (saved.last # 0 /\ saved.written[saved.last] # NoSession)
           => (io'.result = "Ok" /\ io'.session = saved.written[saved.last])
        /\ (PresentIds(files) = {} /\ manager.auto_save)
           => /\ io'.result = "Ok"
              /\ io'.session # NoSession
              /\ io'.session.messages = <<>>
              /\ files'[io'.session.id].present
              /\ LET again == manager_load_latest(files', latest_symlink', fs_time',
                                                  manager.auto_save,
                                                  MaxSessions + nextId', now')
                 IN  /\ ~again.created
                     /\ again.result = "Ok"
                     /\ again.session.id = io'.session.id]_vars

ManagerOps == {"manager_add_message", "manager_new_session", "manager_load_latest"}

\* C31: with auto_save disabled, SessionManager::add_message, new_session
\* and load_latest never call storage.save_session and leave the stored
\* sessions and the latest pointer unchanged, while add_message still
\* appends to the in-memory log and compacts it.
C31_NoSaveWithoutAutoSave ==
  (io.op \in ManagerOps /\ ~manager.auto_save)
  => /\ ~io.save_called
     /\ files = io.before
     /\ latest_symlink = io.latest_before
     /\ io.op = "manager_add_message"
        => LET appended == Append(last.before, last.message) IN
             /\ last.op = "manager_add_message"
             /\ messages = IF total_tokens(appended) > manager.max_tokens
                           THEN SessionCompact(appended, manager.compaction_strategy,
                                               manager.max_tokens)
                           ELSE appended

\* C31 witness: with auto_save disabled and a session in the store,
\* add_message appended a turn and the compaction removed an older one.
C31_Witness ==
  /\ ~manager.auto_save
  /\ io.op = "manager_add_message"
  /\ PresentIds(files) # {}
  /\ last.before # <<>>
  /\ messages = <<last.message>>

\* C31 witness: with auto_save disabled and nothing stored, load_latest
\* made a new session and the store stayed empty.
C31_LoadLatestWitness ==
  /\ ~manager.auto_save
  /\ io.op = "manager_load_latest"
  /\ io.session.id \in NewSessionIds
  /\ PresentIds(files) = {}

\* C19: every compaction returns Ok, never CompactionFailed or another
\* error, and the Sliding loop removes at most as many turns as the log has.
C19_CompactionNeverFails ==
  last.op \in {"compact", "compact_again", "compactor", "compactor_again"}
  => /\ last.result = "Ok"
     /\ (/\ last.op = "compact"
         /\ last.strategy.kind = "Sliding"
         /\ total_tokens(last.before) > last.target)
        => /\ sliding_removals(last.before, last.strategy.max_tokens) <= Len(last.before)
           /\ Len(messages) + sliding_removals(last.before, last.strategy.max_tokens)
                = Len(last.before)

\* C19 witness: a compaction that ran and had to drop every turn returned Ok.
C19_Witness ==
  /\ last.op = "compact"
  /\ total_tokens(last.before) > last.target
  /\ messages = <<>>
  /\ last.result = "Ok"

\* ceil(characters / 4), or the cached count
ClaimedEstimate(m) ==
  IF m.token_count # None THEN m.token_count
  ELSE (m.content_chars + 3) \div 4

RECURSIVE ClaimedTotal(_)
ClaimedTotal(msgs) ==
  IF msgs = <<>> THEN 0
  ELSE ClaimedEstimate(Head(msgs)) + ClaimedTotal(Tail(msgs))

\* C20: total_tokens() is the sum over the turns of the cached token_count
\* when present and otherwise of ceil(length / 4), length being the number
\* of characters of the content; empty content is estimated at 0.
C20_TokenAccounting ==
  /\ total_tokens(messages) = ClaimedTotal(messages)
  /\ estimate_tokens([role |-> "User", content_len |-> 0, content_chars |-> 0,
                      token_count |-> None]) = 0

====
